---------------------------- MODULE Spec2Model ----------------------------
(***************************************************************************)
(* Model of monitor.py (Parcoursup formation monitor): identity            *)
(* resolution, snapshot diffing, the filter chain and the run (main).      *)
(*                                                                         *)
(* Python values are encoded as follows.                                   *)
(*   - a str is a sequence of one-character strings, so that lower(),      *)
(*     replace() and the substring test `in` are computed, not assumed;    *)
(*   - a JSON scalar is a record [k, s, n]: k is the Python type           *)
(*     ("absent" = key not in the dict, "null" = None, "str", "num",       *)
(*     "float" = a float with one decimal, n in tenths);                   *)
(*   - a formation is a record with one field per key the code reads; a    *)
(*     key the dict does not carry holds Absent;                           *)
(*   - a list of formations is a sequence; a list derived from another     *)
(*     (list comprehension, append) holds references, modelled as the      *)
(*     indices of the records in the list it was derived from.             *)
(***************************************************************************)
EXTENDS Integers, Sequences, FiniteSets, TLC

VARIABLES
    \* detect_new_formations / get_unique_id applied to drawn snapshots
    current, previous, uids, new_formations, called,
    \* apply_filters applied to a drawn list and configuration
    formations, config, call,
    \* main: the two data files and the record of the last run
    CURRENT_DATA_FILE, PREVIOUS_DATA_FILE, run

vars == <<current, previous, uids, new_formations, called,
          formations, config, call,
          CURRENT_DATA_FILE, PREVIOUS_DATA_FILE, run>>

diffVars == <<current, previous, uids, new_formations, called>>
filterVars == <<formations, config, call>>
mainVars == <<CURRENT_DATA_FILE, PREVIOUS_DATA_FILE, run>>

-----------------------------------------------------------------------------
(* Bounds *)

MaxSnapshot == 2      \* longest snapshot drawn for the differ
MaxFormations == 2    \* longest list drawn for apply_filters
MaxFetch == 2         \* most records one run fetches

-----------------------------------------------------------------------------
(* Python values *)

Absent == [k |-> "absent", s |-> <<>>, n |-> 0]
Null == [k |-> "null", s |-> <<>>, n |-> 0]
Str(s) == [k |-> "str", s |-> s, n |-> 0]
Num(n) == [k |-> "num", s |-> <<>>, n |-> n]
Float1(n) == [k |-> "float", s |-> <<>>, n |-> n]

\* a nested coordinate mapping; a key it does not carry holds Absent
Dict(lat, lon, latitude, longitude) ==
    [k |-> "dict", s |-> <<>>, n |-> 0,
     lat |-> lat, lon |-> lon, latitude |-> latitude, longitude |-> longitude]

\* a coordinate field holding a scalar instead of a mapping
Scalar(v) ==
    [k |-> v.k, s |-> v.s, n |-> v.n,
     lat |-> Absent, lon |-> Absent, latitude |-> Absent, longitude |-> Absent]

CoordKeys == <<"lat", "lon", "latitude", "longitude">>

\* bool(v)
Truthy(v) ==
    CASE v.k = "absent" -> FALSE
      [] v.k = "null" -> FALSE
      [] v.k = "str" -> v.s # <<>>
      [] v.k = "num" -> v.n # 0
      [] v.k = "float" -> v.n # 0
      [] v.k = "dict" -> \E i \in DOMAIN CoordKeys : v[CoordKeys[i]].k # "absent"
      [] v.k = "list" -> v.l # <<>>

\* a or b
Or(a, b) == IF Truthy(a) THEN a ELSE b

\* d.get(key): None when the key is absent
Get(d, key) == IF d[key].k = "absent" THEN Null ELSE d[key]

\* d.get(key, default)
GetDefault(d, key, default) == IF d[key].k = "absent" THEN default ELSE d[key]

\* key in d
HasKey(d, key) == d[key].k # "absent"

-----------------------------------------------------------------------------
(* str operations *)

UpperCase == <<"A", "B", "C", "D", "E", "F", "G", "H", "I", "J", "K", "L", "M",
               "N", "O", "P", "Q", "R", "S", "T", "U", "V", "W", "X", "Y", "Z">>
LowerCase == <<"a", "b", "c", "d", "e", "f", "g", "h", "i", "j", "k", "l", "m",
               "n", "o", "p", "q", "r", "s", "t", "u", "v", "w", "x", "y", "z">>

\* the lower-case letter of each upper-case letter
LowerChar == [c \in {UpperCase[i] : i \in DOMAIN UpperCase} |->
                 LowerCase[CHOOSE i \in DOMAIN UpperCase : UpperCase[i] = c]]

\* s.lower()
Lower(s) == [i \in 1..Len(s) |->
                IF s[i] \in DOMAIN LowerChar THEN LowerChar[s[i]] ELSE s[i]]

\* s.replace(" ", "_")
ReplaceSpace(s) == [i \in 1..Len(s) |-> IF s[i] = " " THEN "_" ELSE s[i]]

\* sub in s
Contains(sub, s) ==
    \E i \in 0..(Len(s) - Len(sub)) : SubSeq(s, i + 1, i + Len(sub)) = sub

Digits == <<"0", "1", "2", "3", "4", "5", "6", "7", "8", "9">>

RECURSIVE NatToStr(_)
NatToStr(n) ==
    IF n < 10 THEN <<Digits[n + 1]>>
    ELSE NatToStr(n \div 10) \o <<Digits[(n % 10) + 1]>>

\* str(n) for an int
IntToStr(n) == IF n < 0 THEN <<"-">> \o NatToStr(0 - n) ELSE NatToStr(n)

\* repr of a float with one decimal, given in tenths
Float1ToStr(n) ==
    IF n < 0 THEN <<"-">> \o NatToStr((0 - n) \div 10) \o <<".">> \o NatToStr((0 - n) % 10)
    ELSE NatToStr(n \div 10) \o <<".">> \o NatToStr(n % 10)

\* str(v), as an f-string formats a scalar
Format(v) ==
    CASE v.k = "str" -> v.s
      [] v.k = "null" -> <<"N", "o", "n", "e">>
      [] v.k = "num" -> IntToStr(v.n)
      [] v.k = "float" -> Float1ToStr(v.n)

-----------------------------------------------------------------------------
(* Formation records *)

ScalarKeys == <<"code_uai", "libelle_formation", "libelle_etablissement",
                "ville", "session", "departement", "code_departement",
                "type_formation", "filiere", "statut_etablissement">>

\* the dict with no key
Blank ==
    [code_uai |-> Absent, libelle_formation |-> Absent,
     libelle_etablissement |-> Absent, ville |-> Absent, session |-> Absent,
     departement |-> Absent, code_departement |-> Absent,
     type_formation |-> Absent, filiere |-> Absent,
     statut_etablissement |-> Absent,
     coordonnees |-> Scalar(Absent), coordinates |-> Scalar(Absent),
     distance_km |-> Absent]

-----------------------------------------------------------------------------
(* DATA PROCESSING FUNCTIONS *)

uai_ == <<"u", "a", "i", "_">>
composite_ == <<"c", "o", "m", "p", "o", "s", "i", "t", "e", "_">>
unknown == Str(<<"u", "n", "k", "n", "o", "w", "n">>)

\* get_unique_id testing the code with `if formation.get("code_uai")`
get_unique_id_truthy(formation) ==
    IF Truthy(Get(formation, "code_uai"))
    THEN uai_ \o Format(formation.code_uai)
    ELSE LET name == GetDefault(formation, "libelle_formation", unknown)
             etabl == GetDefault(formation, "libelle_etablissement", unknown)
             ville == GetDefault(formation, "ville", unknown)
             session == GetDefault(formation, "session", unknown)
         IN  ReplaceSpace(Lower(composite_ \o Format(session) \o <<"_">>
                                \o Format(name) \o <<"_">> \o Format(etabl)
                                \o <<"_">> \o Format(ville)))


get_unique_id(formation) ==
    IF HasKey(formation, "code_uai")
    THEN uai_ \o Format(formation.code_uai)
    ELSE LET name == GetDefault(formation, "libelle_formation", unknown)
             etabl == GetDefault(formation, "libelle_etablissement", unknown)
             ville == GetDefault(formation, "ville", unknown)
             session == GetDefault(formation, "session", unknown)
         IN  ReplaceSpace(Lower(composite_ \o Format(session) \o <<"_">>
                                \o Format(name) \o <<"_">> \o Format(etabl)
                                \o <<"_">> \o Format(ville)))

\* the references to the records of xs, in order
Indices(xs) == [i \in 1..Len(xs) |-> i]

\* detect_new_formations without the first-run return
detect_new_formations_no_first_run(cur, prev) ==
    LET previous_ids == {get_unique_id(prev[i]) : i \in DOMAIN prev}
    IN  SelectSeq(Indices(cur),
                  LAMBDA i : get_unique_id(cur[i]) \notin previous_ids)


detect_new_formations(cur, prev) ==
    IF prev = <<>>
    THEN <<>>
    ELSE LET previous_ids == {get_unique_id(prev[i]) : i \in DOMAIN prev}
         IN  SelectSeq(Indices(cur),
                       LAMBDA i : get_unique_id(cur[i]) \notin previous_ids)


-----------------------------------------------------------------------------
(* Snapshots drawn for the differ *)

IdRecords ==
    { [Blank EXCEPT !.code_uai = Str(<<"A">>),
                    !.libelle_formation = Str(<<"X", " ", "y">>),
                    !.ville = Str(<<"P">>)],
      [Blank EXCEPT !.code_uai = Str(<<"A">>),
                    !.libelle_formation = Str(<<"Z">>),
                    !.libelle_etablissement = Str(<<"L">>),
                    !.ville = Str(<<"Q">>),
                    !.session = Str(<<"2", "5">>)],
      [Blank EXCEPT !.code_uai = Str(<<"B">>),
                    !.libelle_formation = Str(<<"X", " ", "y">>)],
      [Blank EXCEPT !.code_uai = Null,
                    !.libelle_formation = Str(<<"X", " ", "y">>)],
      [Blank EXCEPT !.code_uai = Num(7),
                    !.ville = Str(<<"P">>)],
      [Blank EXCEPT !.libelle_formation = Str(<<"X", " ", "y">>),
                    !.session = Str(<<"2", "5">>)],
      [Blank EXCEPT !.libelle_formation = Str(<<"x", "_", "Y">>),
                    !.session = Str(<<"2", "5">>)] }

RECURSIVE SeqsUpTo(_, _)
SeqsUpTo(S, n) ==
    IF n = 0 THEN {<<>>}
    ELSE LET shorter == SeqsUpTo(S, n - 1)
         IN  shorter \cup {Append(q, x) : q \in shorter, x \in S}

IdSnapshots == SeqsUpTo(IdRecords, MaxSnapshot)

\* get_unique_id applied to every record of current
GetUniqueId ==
    /\ "get_unique_id" \notin called
    /\ uids' = [i \in DOMAIN current |-> get_unique_id(current[i])]
    /\ called' = called \cup {"get_unique_id"}
    /\ UNCHANGED <<current, previous, new_formations>>

DetectNewFormations ==
    /\ "detect_new_formations" \notin called
    /\ new_formations' = detect_new_formations(current, previous)
    /\ called' = called \cup {"detect_new_formations"}
    /\ UNCHANGED <<current, previous, uids>>


-----------------------------------------------------------------------------
(* json.dumps(f, ensure_ascii=False) *)

\* the text of each key; the field distance_km stands for the key _distance_km
KeyText ==
    "code_uai" :> <<"c", "o", "d", "e", "_", "u", "a", "i">> @@
    "libelle_formation" :> <<"l", "i", "b", "e", "l", "l", "e", "_", "f", "o", "r", "m", "a", "t", "i", "o", "n">> @@
    "libelle_etablissement" :> <<"l", "i", "b", "e", "l", "l", "e", "_", "e", "t", "a", "b", "l", "i", "s", "s", "e", "m", "e", "n", "t">> @@
    "ville" :> <<"v", "i", "l", "l", "e">> @@
    "session" :> <<"s", "e", "s", "s", "i", "o", "n">> @@
    "departement" :> <<"d", "e", "p", "a", "r", "t", "e", "m", "e", "n", "t">> @@
    "code_departement" :> <<"c", "o", "d", "e", "_", "d", "e", "p", "a", "r", "t", "e", "m", "e", "n", "t">> @@
    "type_formation" :> <<"t", "y", "p", "e", "_", "f", "o", "r", "m", "a", "t", "i", "o", "n">> @@
    "filiere" :> <<"f", "i", "l", "i", "e", "r", "e">> @@
    "statut_etablissement" :> <<"s", "t", "a", "t", "u", "t", "_", "e", "t", "a", "b", "l", "i", "s", "s", "e", "m", "e", "n", "t">> @@
    "coordonnees" :> <<"c", "o", "o", "r", "d", "o", "n", "n", "e", "e", "s">> @@
    "coordinates" :> <<"c", "o", "o", "r", "d", "i", "n", "a", "t", "e", "s">> @@
    "lat" :> <<"l", "a", "t">> @@
    "lon" :> <<"l", "o", "n">> @@
    "latitude" :> <<"l", "a", "t", "i", "t", "u", "d", "e">> @@
    "longitude" :> <<"l", "o", "n", "g", "i", "t", "u", "d", "e">> @@
    "distance_km" :> <<"_", "d", "i", "s", "t", "a", "n", "c", "e", "_", "k", "m">>

Quote == "\""

JsonScalar(v) ==
    CASE v.k = "str" -> <<Quote>> \o v.s \o <<Quote>>
      [] v.k = "null" -> <<"n", "u", "l", "l">>
      [] v.k = "num" -> IntToStr(v.n)
      [] v.k = "float" -> Float1ToStr(v.n)

\* one item '"key": value', preceded by ', ' unless it is the first
JsonItem(key, text, first) ==
    (IF first THEN <<>> ELSE <<",", " ">>)
    \o <<Quote>> \o KeyText[key] \o <<Quote, ":", " ">> \o text

\* the items of the scalar keys d carries, from keys[i] on
RECURSIVE JsonItems(_, _, _, _)
JsonItems(d, keys, i, first) ==
    IF i > Len(keys) THEN <<>>
    ELSE IF d[keys[i]].k = "absent" THEN JsonItems(d, keys, i + 1, first)
    ELSE JsonItem(keys[i], JsonScalar(d[keys[i]]), first)
         \o JsonItems(d, keys, i + 1, FALSE)

JsonCoord(v) ==
    IF v.k = "dict"
    THEN <<"{">> \o JsonItems(v, CoordKeys, 1, TRUE) \o <<"}">>
    ELSE JsonScalar(v)

\* keys are written in the order the dict holds them: the order of
\* ScalarKeys, then the coordinate keys, then the annotation (added last)
json_dumps(f) ==
    LET scalars == JsonItems(f, ScalarKeys, 1, TRUE)
        coordonnees ==
            IF f.coordonnees.k = "absent" THEN <<>>
            ELSE JsonItem("coordonnees", JsonCoord(f.coordonnees), scalars = <<>>)
        coordinates ==
            IF f.coordinates.k = "absent" THEN <<>>
            ELSE JsonItem("coordinates", JsonCoord(f.coordinates),
                          scalars = <<>> /\ coordonnees = <<>>)
        annot ==
            IF f.distance_km.k = "absent" THEN <<>>
            ELSE JsonItem("distance_km", JsonScalar(f.distance_km),
                          scalars = <<>> /\ coordonnees = <<>> /\ coordinates = <<>>)
    IN  <<"{">> \o scalars \o coordonnees \o coordinates \o annot \o <<"}">>

-----------------------------------------------------------------------------
(* FILTERING FUNCTIONS *)

\* calculate_distance at the integer-degree points the model draws, in
\* metres: the haversine formula with R = 6371 evaluated at each point
HaversineMetres ==
    <<0, 0, 0, 0>> :> 0 @@
    <<0, 0, 0, 2>> :> 222390 @@
    <<0, 0, 0, 3>> :> 333585 @@
    <<0, 0, 48, 0>> :> 5337356 @@
    <<0, 0, 48, 2>> :> 5340850 @@
    <<0, 0, 48, 3>> :> 5345214 @@
    <<0, 0, 50, 0>> :> 5559746 @@
    <<0, 0, 50, 2>> :> 5563002 @@
    <<0, 0, 50, 3>> :> 5567069 @@
    <<0, 2, 0, 0>> :> 222390 @@
    <<0, 2, 0, 2>> :> 0 @@
    <<0, 2, 0, 3>> :> 111195 @@
    <<0, 2, 48, 0>> :> 5340850 @@
    <<0, 2, 48, 2>> :> 5337356 @@
    <<0, 2, 48, 3>> :> 5338230 @@
    <<0, 2, 50, 0>> :> 5563002 @@
    <<0, 2, 50, 2>> :> 5559746 @@
    <<0, 2, 50, 3>> :> 5560560 @@
    <<48, 0, 0, 0>> :> 5337356 @@
    <<48, 0, 0, 2>> :> 5340850 @@
    <<48, 0, 0, 3>> :> 5345214 @@
    <<48, 0, 48, 0>> :> 0 @@
    <<48, 0, 48, 2>> :> 148804 @@
    <<48, 0, 48, 3>> :> 223198 @@
    <<48, 0, 50, 0>> :> 222390 @@
    <<48, 0, 50, 2>> :> 265956 @@
    <<48, 0, 50, 3>> :> 311966 @@
    <<48, 2, 0, 0>> :> 5340850 @@
    <<48, 2, 0, 2>> :> 5337356 @@
    <<48, 2, 0, 3>> :> 5338230 @@
    <<48, 2, 48, 0>> :> 148804 @@
    <<48, 2, 48, 2>> :> 0 @@
    <<48, 2, 48, 3>> :> 74403 @@
    <<48, 2, 50, 0>> :> 265956 @@
    <<48, 2, 50, 2>> :> 222390 @@
    <<48, 2, 50, 3>> :> 234043

calculate_distance(lat1, lon1, lat2, lon2) ==
    HaversineMetres[<<lat1, lon1, lat2, lon2>>]

\* round(distance, 1), in tenths of a kilometre
Round1(metres) == (metres + 50) \div 100


\* a configured list (of str), null, or a key the configuration lacks
List(l) == [k |-> "list", l |-> l]
NullList == [k |-> "null", l |-> <<>>]
AbsentList == [k |-> "absent", l |-> <<>>]

\* [k.lower() for k in l]
LowerAll(l) == [i \in DOMAIN l |-> Lower(l[i])]

\* any(w in text for w in words)
AnyIn(words, text) == \E i \in DOMAIN words : Contains(words[i], text)

\* what one stage leaves: whether its `if` was taken, whether it raised,
\* the list `filtered` after it and the records (annotated in place)
StageResult(active, raised, out, heap) ==
    [active |-> active, raised |-> raised, out |-> out, heap |-> heap]

\* the departement stage testing only the first field the record carries
DeptStage_first_field(fs, filters, filtered) ==
    IF ~Truthy(filters.departements)
    THEN StageResult(FALSE, FALSE, filtered, fs)
    ELSE LET depts == {Str(filters.departements.l[i]) :
                           i \in DOMAIN filters.departements.l}
             dept(f) == IF HasKey(f, "departement") THEN f.departement
                        ELSE Get(f, "code_departement")
         IN  StageResult(TRUE, FALSE,
                 SelectSeq(filtered, LAMBDA i : dept(fs[i]) \in depts), fs)

\* Filter by departement
DeptStage(fs, filters, filtered) ==
    IF ~Truthy(filters.departements)
    THEN StageResult(FALSE, FALSE, filtered, fs)
    ELSE LET depts == {Str(filters.departements.l[i]) :
                           i \in DOMAIN filters.departements.l}
         IN  StageResult(TRUE, FALSE,
                 SelectSeq(filtered,
                     LAMBDA i : \/ Get(fs[i], "departement") \in depts
                                \/ Get(fs[i], "code_departement") \in depts),
                 fs)

\* Filter by formation type.  x.lower() raises AttributeError unless x is a
\* str; the second any() is evaluated only when the first is false
TypeStage(fs, filters, filtered) ==
    IF ~Truthy(filters.types_formation)
    THEN StageResult(FALSE, FALSE, filtered, fs)
    ELSE LET types == LowerAll(filters.types_formation.l)
             type_formation(f) == GetDefault(f, "type_formation", Str(<<>>))
             filiere(f) == GetDefault(f, "filiere", Str(<<>>))
             InType(f) == AnyIn(types, Lower(type_formation(f).s))
             Raises(f) == \/ type_formation(f).k # "str"
                          \/ ~InType(f) /\ filiere(f).k # "str"
             Keeps(f) == InType(f) \/ AnyIn(types, Lower(filiere(f).s))
         IN  IF \E j \in DOMAIN filtered : Raises(fs[filtered[j]])
             THEN StageResult(TRUE, TRUE, filtered, fs)
             ELSE StageResult(TRUE, FALSE,
                      SelectSeq(filtered, LAMBDA i : Keeps(fs[i])), fs)

\* Filter by status (public/private)
StatusStage(fs, filters, filtered) ==
    IF ~Truthy(filters.statut)
    THEN StageResult(FALSE, FALSE, filtered, fs)
    ELSE LET statuts == LowerAll(filters.statut.l)
             statut(f) == GetDefault(f, "statut_etablissement", Str(<<>>))
             Raises(f) == statut(f).k # "str"
             Keeps(f) == \E j \in DOMAIN statuts : statuts[j] = Lower(statut(f).s)
         IN  IF \E j \in DOMAIN filtered : Raises(fs[filtered[j]])
             THEN StageResult(TRUE, TRUE, filtered, fs)
             ELSE StageResult(TRUE, FALSE,
                      SelectSeq(filtered, LAMBDA i : Keeps(fs[i])), fs)

\* Filter by keywords (include)
IncludeStage(fs, filters, filtered) ==
    IF ~Truthy(filters.keywords_include)
    THEN StageResult(FALSE, FALSE, filtered, fs)
    ELSE LET keywords_inc == LowerAll(filters.keywords_include.l)
         IN  StageResult(TRUE, FALSE,
                 SelectSeq(filtered,
                     LAMBDA i : AnyIn(keywords_inc, Lower(json_dumps(fs[i])))),
                 fs)

\* the exclude stage reading `formations` instead of `filtered`
ExcludeStage_from_formations(fs, filters, filtered) ==
    IF ~Truthy(filters.keywords_exclude)
    THEN StageResult(FALSE, FALSE, filtered, fs)
    ELSE LET keywords_exc == LowerAll(filters.keywords_exclude.l)
         IN  StageResult(TRUE, FALSE,
                 SelectSeq(Indices(fs),
                     LAMBDA i : ~AnyIn(keywords_exc, Lower(json_dumps(fs[i])))),
                 fs)

\* Filter by keywords (exclude)
ExcludeStage(fs, filters, filtered) ==
    IF ~Truthy(filters.keywords_exclude)
    THEN StageResult(FALSE, FALSE, filtered, fs)
    ELSE LET keywords_exc == LowerAll(filters.keywords_exclude.l)
         IN  StageResult(TRUE, FALSE,
                 SelectSeq(filtered,
                     LAMBDA i : ~AnyIn(keywords_exc, Lower(json_dumps(fs[i])))),
                 fs)


EmptyDict == Dict(Absent, Absent, Absent, Absent)

\* f.get(key) for a coordinate key
CoordGet(f, key) == IF f[key].k = "absent" THEN Scalar(Null) ELSE f[key]

\* a value math.radians() and <= accept (the coordinates drawn are whole
\* degrees); any other value makes them raise TypeError
IsNumber(v) == v.k = "num"

\* the loop annotating a record before it tests the distance
RECURSIVE DistanceLoop_annotate_first(_, _, _, _, _, _, _)
DistanceLoop_annotate_first(fs, filtered, j, distance_filtered, home_lat, home_lon, max_distance) ==
    IF j > Len(filtered)
    THEN StageResult(TRUE, FALSE, distance_filtered, fs)
    ELSE
      LET f == fs[filtered[j]]
          coords == Or(Or(CoordGet(f, "coordonnees"), CoordGet(f, "coordinates")),
                       EmptyDict)
          lat == Or(Get(coords, "lat"), Get(coords, "latitude"))
          lon == Or(Get(coords, "lon"), Get(coords, "longitude"))
          Skip == DistanceLoop_annotate_first(fs, filtered, j + 1, distance_filtered,
                                              home_lat, home_lon, max_distance)
      IN  IF coords.k # "dict" THEN Skip
          ELSE IF ~(Truthy(lat) /\ Truthy(lon)) THEN Skip
          ELSE IF ~(/\ IsNumber(home_lat) /\ IsNumber(home_lon)
                    /\ IsNumber(lat) /\ IsNumber(lon) /\ IsNumber(max_distance))
          THEN StageResult(TRUE, TRUE, distance_filtered, fs)
          ELSE LET distance == calculate_distance(home_lat.n, home_lon.n, lat.n, lon.n)
                   annotated == [fs EXCEPT ![filtered[j]].distance_km =
                                               Float1(Round1(distance))]
               IN  DistanceLoop_annotate_first(
                       annotated, filtered, j + 1,
                       IF distance <= max_distance.n * 1000
                       THEN Append(distance_filtered, filtered[j])
                       ELSE distance_filtered,
                       home_lat, home_lon, max_distance)

\* the body of `for f in filtered`, from filtered[j] on; a record that
\* passes is annotated in place before it is appended
RECURSIVE DistanceLoop(_, _, _, _, _, _, _)
DistanceLoop(fs, filtered, j, distance_filtered, home_lat, home_lon, max_distance) ==
    IF j > Len(filtered)
    THEN StageResult(TRUE, FALSE, distance_filtered, fs)
    ELSE
      LET f == fs[filtered[j]]
          coords == Or(Or(CoordGet(f, "coordonnees"), CoordGet(f, "coordinates")),
                       EmptyDict)
          lat == Or(Get(coords, "lat"), Get(coords, "latitude"))
          lon == Or(Get(coords, "lon"), Get(coords, "longitude"))
          Skip == DistanceLoop(fs, filtered, j + 1, distance_filtered,
                               home_lat, home_lon, max_distance)
      IN  IF coords.k # "dict" THEN Skip
          ELSE IF ~(Truthy(lat) /\ Truthy(lon)) THEN Skip
          ELSE IF ~(/\ IsNumber(home_lat) /\ IsNumber(home_lon)
                    /\ IsNumber(lat) /\ IsNumber(lon) /\ IsNumber(max_distance))
          THEN StageResult(TRUE, TRUE, distance_filtered, fs)
          ELSE LET distance == calculate_distance(home_lat.n, home_lon.n, lat.n, lon.n)
               IN  IF distance <= max_distance.n * 1000
                   THEN DistanceLoop(
                            [fs EXCEPT ![filtered[j]].distance_km =
                                           Float1(Round1(distance))],
                            filtered, j + 1,
                            Append(distance_filtered, filtered[j]),
                            home_lat, home_lon, max_distance)
                   ELSE Skip

\* Filter by distance.  home_coords.get raises AttributeError when
\* home_coordinates is not a mapping; `and` evaluates it only when
\* max_distance is truthy
DistanceStage(fs, filters, filtered) ==
    LET max_distance == Get(filters, "max_distance_km")
        home_coords == IF filters.home_coordinates.k = "absent"
                       THEN EmptyDict ELSE filters.home_coordinates
    IN  IF ~Truthy(max_distance)
        THEN StageResult(FALSE, FALSE, filtered, fs)
        ELSE IF home_coords.k # "dict"
        THEN StageResult(FALSE, TRUE, filtered, fs)
        ELSE IF ~(Truthy(Get(home_coords, "lat")) /\ Truthy(Get(home_coords, "lon")))
        THEN StageResult(FALSE, FALSE, filtered, fs)
        ELSE DistanceLoop(fs, filtered, 1, <<>>,
                          home_coords.lat, home_coords.lon, max_distance)

StageNames == <<"departement", "type", "status", "include", "exclude", "distance">>

\* the stages in the order apply_filters runs them
Stage(n, fs, filters, filtered) ==
    CASE n = 1 -> DeptStage(fs, filters, filtered)
      [] n = 2 -> TypeStage(fs, filters, filtered)
      [] n = 3 -> StatusStage(fs, filters, filtered)
      [] n = 4 -> IncludeStage(fs, filters, filtered)
      [] n = 5 -> ExcludeStage(fs, filters, filtered)
      [] n = 6 -> DistanceStage(fs, filters, filtered)

\* the call from stage n on; st.stages records, for each stage reached,
\* the list it was given and what it left
RECURSIVE FilterChain(_, _, _)
FilterChain(filters, n, st) ==
    IF n > Len(StageNames) \/ st.raised THEN st
    ELSE LET r == Stage(n, st.heap, filters, st.filtered)
         IN  FilterChain(filters, n + 1,
                 [done |-> TRUE, raised |-> r.raised, filtered |-> r.out,
                  heap |-> r.heap,
                  stages |-> Append(st.stages,
                      [active |-> r.active, raised |-> r.raised,
                       input |-> st.filtered, output |-> r.out])])

\* the outcome of apply_filters(formations, config): raised, or returned
\* `filtered` (references into formations); heap is formations after the call
apply_filters(fs, cfg) ==
    IF fs = <<>>
    THEN [done |-> TRUE, raised |-> FALSE, filtered |-> <<>>, heap |-> fs,
          stages |-> <<>>]
    ELSE FilterChain(cfg.filters, 1,
             [done |-> TRUE, raised |-> FALSE, filtered |-> Indices(fs),
              heap |-> fs, stages |-> <<>>])


-----------------------------------------------------------------------------
(* Lists and configurations drawn for apply_filters *)

Coords(lat, lon) == Dict(Num(lat), Num(lon), Absent, Absent)

FilterRecords ==
    { \* passes every stage; 74 km from home
      [Blank EXCEPT !.departement = Str(<<"7", "5">>),
                    !.type_formation = Str(<<"B", "T", "S">>),
                    !.statut_etablissement = Str(<<"P", "u", "b", "l", "i", "c">>),
                    !.libelle_formation = Str(<<"I", "n", "f", "o">>),
                    !.coordonnees = Coords(48, 3)],
      \* two department fields that disagree; 234 km from home
      [Blank EXCEPT !.departement = Str(<<"9", "2">>),
                    !.code_departement = Str(<<"7", "5">>),
                    !.type_formation = Str(<<"B", "T", "S">>),
                    !.statut_etablissement = Str(<<"p", "u", "b", "l", "i", "c">>),
                    !.libelle_formation = Str(<<"I", "n", "f", "o", " ", "g", "y", "m">>),
                    !.coordonnees = Coords(50, 3)],
      \* second field names only; at home
      [Blank EXCEPT !.code_departement = Str(<<"9", "2">>),
                    !.filiere = Str(<<"b", "t", "s">>),
                    !.statut_etablissement = Str(<<"P", "r", "i", "v", "e">>),
                    !.libelle_formation = Str(<<"G", "y", "m">>),
                    !.coordinates = Dict(Absent, Absent, Num(48), Num(2))],
      \* null formation type; longitude 0, 149 km from home
      [Blank EXCEPT !.departement = Str(<<"7", "5">>),
                    !.type_formation = Null,
                    !.statut_etablissement = Str(<<"P", "u", "b", "l", "i", "c">>),
                    !.libelle_formation = Str(<<"I", "n", "f", "o">>),
                    !.coordonnees = Coords(48, 0)],
      \* null status; coordinates given as text
      [Blank EXCEPT !.departement = Str(<<"7", "5">>),
                    !.type_formation = Str(<<"B", "T", "S">>),
                    !.statut_etablissement = Null,
                    !.coordonnees = Dict(Str(<<"4", "8">>), Str(<<"3">>), Absent, Absent)],
      \* coordinates that are not a mapping
      [Blank EXCEPT !.departement = Str(<<"7", "5">>),
                    !.type_formation = Str(<<"L", "i", "c">>),
                    !.libelle_formation = Str(<<"I", "n", "f", "o">>),
                    !.coordonnees = Scalar(Str(<<"4", "8", ",", "3">>))],
      \* numeric department, null filiere behind a matching type, no coordinates
      [Blank EXCEPT !.departement = Num(75),
                    !.type_formation = Str(<<"B", "T", "S">>),
                    !.filiere = Null,
                    !.statut_etablissement = Str(<<"P", "u", "b", "l", "i", "c">>)],
      \* null filiere behind a type that does not match; empty coordonnees
      [Blank EXCEPT !.departement = Str(<<"7", "5">>),
                    !.type_formation = Str(<<"L", "i", "c">>),
                    !.filiere = Null,
                    !.statut_etablissement = Str(<<"P", "u", "b", "l", "i", "c">>),
                    !.libelle_formation = Str(<<"G", "y", "m">>),
                    !.coordonnees = EmptyDict,
                    !.coordinates = Coords(48, 3)] }

Bool(b) == [k |-> "bool", b |-> b]
AbsentBool == [k |-> "absent", b |-> FALSE]

\* the configuration with no key
NoConfig ==
    [filters |->
        [departements |-> AbsentList, types_formation |-> AbsentList,
         statut |-> AbsentList, keywords_include |-> AbsentList,
         keywords_exclude |-> AbsentList, max_distance_km |-> Absent,
         home_coordinates |-> Scalar(Absent)],
     email |-> [send_if_no_new |-> AbsentBool]]

\* max_distance_km with home_coordinates
DistanceSettings ==
    { <<Null, Coords(48, 2)>>,
      <<Null, Scalar(Null)>>,
      <<Num(0), Coords(48, 2)>>,
      <<Num(150), Coords(48, 2)>>,
      <<Num(150), Scalar(Absent)>>,
      <<Num(150), Scalar(Null)>>,
      <<Num(150), Dict(Num(48), Absent, Absent, Absent)>>,
      <<Num(150), Coords(0, 2)>> }

FilterConfigs ==
    { [filters |->
          [departements |-> d, types_formation |-> t, statut |-> st,
           keywords_include |-> inc, keywords_exclude |-> exc,
           max_distance_km |-> dist[1], home_coordinates |-> dist[2]],
       email |-> [send_if_no_new |-> AbsentBool]] :
        d \in {List(<<>>), List(<< <<"7", "5">> >>)},
        t \in {NullList, List(<< <<"B", "T", "S">> >>)},
        st \in {AbsentList, List(<< <<"P", "u", "b", "l", "i", "c">> >>)},
        inc \in {List(<<>>), List(<< <<"i", "n", "f", "o">> >>)},
        exc \in {List(<<>>), List(<< <<"G", "y", "m">> >>)},
        dist \in DistanceSettings }

NotCalled ==
    [done |-> FALSE, raised |-> FALSE, filtered |-> <<>>, heap |-> <<>>,
     stages |-> <<>>]

FilterLists == SeqsUpTo(FilterRecords, MaxFormations)

\* apply_filters(formations, config).  formations keeps the records as they
\* were passed; call.heap holds them as the call leaves them
ApplyFilters ==
    /\ ~call.done
    /\ call' = apply_filters(formations, config)
    /\ UNCHANGED <<formations, config>>


-----------------------------------------------------------------------------
(* MAIN EXECUTION *)

\* a data file: missing, or holding the list json.dump wrote.  The lists
\* written are lists the run parsed from JSON, for which json.load returns
\* what json.dump was given
NoFile == [exists |-> FALSE, data |-> <<>>]
File(data) == [exists |-> TRUE, data |-> data]

load_previous_formations(file) == IF ~file.exists THEN <<>> ELSE file.data

save_current_formations(fs) == File(fs)

\* the new contents of PREVIOUS_DATA_FILE
update_previous_formations(cur_file, prev_file) ==
    IF cur_file.exists THEN File(cur_file.data) ELSE prev_file

\* email_config.get("send_if_no_new", True)
send_if_no_new(cfg) ==
    IF cfg.email.send_if_no_new.k = "absent" THEN TRUE
    ELSE cfg.email.send_if_no_new.b

\* should_send without `or is_first_run`
should_send_no_first_run(filtered_new, cfg, is_first_run) ==
    filtered_new # <<>> \/ send_if_no_new(cfg)


should_send(filtered_new, cfg, is_first_run) ==
    filtered_new # <<>> \/ send_if_no_new(cfg) \/ is_first_run

\* which of the three subject lines main builds
subject(filtered_new, is_first_run) ==
    IF is_first_run THEN "First Run - Setup Complete"
    ELSE IF filtered_new # <<>> THEN "New Formation(s) Found"
    ELSE "No New Formations"

\* create_email_html without the `if is_first_run` branch
create_email_html_no_first_run(new, total_fetched, is_first_run) ==
    IF new = <<>> THEN [kind |-> "No New Formations", total |-> 0, listed |-> <<>>]
    ELSE [kind |-> "New Formation(s) Found", total |-> 0, listed |-> new]

\* which of the three report bodies create_email_html builds
create_email_html(new, total_fetched, is_first_run) ==
    IF is_first_run THEN [kind |-> "First Run", total |-> total_fetched, listed |-> <<>>]
    ELSE IF new = <<>> THEN [kind |-> "No New Formations", total |-> 0, listed |-> <<>>]
    ELSE [kind |-> "New Formation(s) Found", total |-> 0, listed |-> new]

NoMail == [sent |-> FALSE, delivered |-> FALSE, subject |-> "",
           body |-> [kind |-> "", total |-> 0, listed |-> <<>>]]

NoRun ==
    [outcome |-> "none", config |-> NoConfig, fetched |-> <<>>,
     previous_formations |-> <<>>, is_first_run |-> FALSE,
     new_formations |-> <<>>, filtered_new |-> <<>>, mail |-> NoMail,
     calls |-> <<>>]

\* run.calls lists, in order, the functions main called
Called(started, fn) == [started EXCEPT !.calls = Append(@, fn)]

\* the records a list of references into fs stands for
Deref(fs, refs) == [j \in DOMAIN refs |-> fs[refs[j]]]

\* what a run leaves: its record and the two data files
Outcome(r, cur_file, prev_file) ==
    [run |-> r, cur_file |-> cur_file, prev_file |-> prev_file]

\* main from "Send email notification" on: filtering is what apply_filters
\* left, started the record of the run so far
main_notify(started, saved, prev_file, cfg, smtp_ok, filtering) ==
    IF filtering.raised
    THEN Outcome([started EXCEPT !.outcome = "error"], saved, prev_file)
    ELSE Outcome(
             [started EXCEPT
                 !.outcome = "completed",
                 !.calls =
                     IF should_send(Deref(filtering.heap, filtering.filtered), cfg,
                                    started.is_first_run)
                     THEN @ \o <<"create_email_html", "send_email_notification",
                                 "update_previous_formations">>
                     ELSE @ \o <<"update_previous_formations">>,
                 !.filtered_new = Deref(filtering.heap, filtering.filtered),
                 !.mail =
                     IF should_send(Deref(filtering.heap, filtering.filtered), cfg,
                                    started.is_first_run)
                     THEN [sent |-> TRUE, delivered |-> smtp_ok,
                           subject |-> subject(Deref(filtering.heap, filtering.filtered),
                                               started.is_first_run),
                           body |-> create_email_html(
                                        Deref(filtering.heap, filtering.filtered),
                                        Len(started.fetched), started.is_first_run)]
                     ELSE NoMail],
             saved, update_previous_formations(saved, prev_file))

\* main from "Apply filters to new formations" on: new_list is what
\* detect_new_formations returned
main_filter(started, saved, prev_file, cfg, smtp_ok, new_list) ==
    main_notify([started EXCEPT
                    !.new_formations = new_list,
                    !.calls = IF new_list # <<>> THEN Append(@, "apply_filters")
                              ELSE @],
                saved, prev_file, cfg, smtp_ok,
                IF new_list # <<>> THEN apply_filters(new_list, cfg)
                ELSE [NotCalled EXCEPT !.done = TRUE])

\* main saving the fetched list before testing it for emptiness
main_fetch_save_first(started, cur_file, prev_file, cfg, smtp_ok) ==
    IF started.fetched = <<>>
    THEN Outcome([Called(started, "save_current_formations")
                     EXCEPT !.outcome = "aborted"],
                 save_current_formations(started.fetched), prev_file)
    ELSE main_filter(Called(Called(started, "save_current_formations"),
                            "detect_new_formations"),
                     save_current_formations(started.fetched), prev_file,
                     cfg, smtp_ok,
                     Deref(started.fetched,
                           detect_new_formations(started.fetched,
                                                 started.previous_formations)))

\* main from "Fetch current data" on
main_fetch(started, cur_file, prev_file, cfg, smtp_ok) ==
    IF started.fetched = <<>>
    THEN Outcome([started EXCEPT !.outcome = "aborted"], cur_file, prev_file)
    ELSE main_filter(Called(Called(started, "save_current_formations"),
                            "detect_new_formations"),
                     save_current_formations(started.fetched), prev_file,
                     cfg, smtp_ok,
                     Deref(started.fetched,
                           detect_new_formations(started.fetched,
                                                 started.previous_formations)))

\* one execution of main, as the record of the run and the two files it
\* leaves.  fetched is what fetch_all_formations returns, smtp_ok whether
\* send_email_notification succeeds (it catches every exception).
\* outcome: "aborted" = sys.exit(1) on an empty fetch, "error" = an
\* exception reached the handler under __main__ (sys.exit(1)),
\* "completed" = main returned
main(cur_file, prev_file, cfg, fetched, smtp_ok) ==
    main_fetch([NoRun EXCEPT
                   !.config = cfg, !.fetched = fetched,
                   !.previous_formations = load_previous_formations(prev_file),
                   !.is_first_run = Len(load_previous_formations(prev_file)) = 0,
                   !.calls = <<"load_previous_formations", "fetch_all_formations">>],
               cur_file, prev_file, cfg, smtp_ok)

-----------------------------------------------------------------------------
(* Fetches and configurations drawn for the runs *)

MainRecords ==
    { \* 74 km from home
      [Blank EXCEPT !.code_uai = Str(<<"A">>),
                    !.type_formation = Str(<<"B", "T", "S">>),
                    !.coordonnees = Coords(48, 3)],
      \* no establishment code, null formation type; 234 km from home
      [Blank EXCEPT !.libelle_formation = Str(<<"I", "n", "f", "o">>),
                    !.type_formation = Null,
                    !.coordonnees = Coords(50, 3)] }

Fetches == SeqsUpTo(MainRecords, MaxFetch)

MainFilters ==
    { [NoConfig.filters EXCEPT !.types_formation = List(<< <<"B", "T", "S">> >>)],
      [NoConfig.filters EXCEPT !.max_distance_km = Num(150),
                               !.home_coordinates = Coords(48, 2)] }

MainConfigs ==
    {NoConfig} \cup
    { [filters |-> f, email |-> [send_if_no_new |-> Bool(b)]] :
        f \in MainFilters, b \in BOOLEAN }

\* the run leaves its record and the two files
Leave(m) ==
    /\ run' = m.run
    /\ CURRENT_DATA_FILE' = m.cur_file
    /\ PREVIOUS_DATA_FILE' = m.prev_file

Main ==
    \E cfg \in MainConfigs, fetched \in Fetches, smtp_ok \in BOOLEAN :
        Leave(main(CURRENT_DATA_FILE, PREVIOUS_DATA_FILE, cfg, fetched, smtp_ok))

-----------------------------------------------------------------------------
(* Specifications *)

\* the differ and the identity resolver on bounded snapshots
InitDiff ==
    /\ current \in IdSnapshots
    /\ previous \in IdSnapshots
    /\ uids = <<>>
    /\ new_formations = <<>>
    /\ called = {}
    /\ formations = <<>>
    /\ config = NoConfig
    /\ call = NotCalled
    /\ CURRENT_DATA_FILE = NoFile
    /\ PREVIOUS_DATA_FILE = NoFile
    /\ run = NoRun

NextDiff ==
    \/ GetUniqueId /\ UNCHANGED <<filterVars, mainVars>>
    \/ DetectNewFormations /\ UNCHANGED <<filterVars, mainVars>>

SpecDiff == InitDiff /\ [][NextDiff]_vars

\* the filter chain on bounded record lists and configurations
InitFilter ==
    /\ current = <<>>
    /\ previous = <<>>
    /\ uids = <<>>
    /\ new_formations = <<>>
    /\ called = {}
    /\ formations \in FilterLists
    /\ config \in FilterConfigs
    /\ call = NotCalled
    /\ CURRENT_DATA_FILE = NoFile
    /\ PREVIOUS_DATA_FILE = NoFile
    /\ run = NoRun

NextFilter == ApplyFilters /\ UNCHANGED <<diffVars, mainVars>>

SpecFilter == InitFilter /\ [][NextFilter]_vars

\* runs of main, starting with neither data file on disk
Init ==
    /\ current = <<>>
    /\ previous = <<>>
    /\ uids = <<>>
    /\ new_formations = <<>>
    /\ called = {}
    /\ formations = <<>>
    /\ config = NoConfig
    /\ call = NotCalled
    /\ CURRENT_DATA_FILE = NoFile
    /\ PREVIOUS_DATA_FILE = NoFile
    /\ run = NoRun

Next == Main /\ UNCHANGED <<diffVars, filterVars>>

Spec == Init /\ [][Next]_vars

-----------------------------------------------------------------------------
(* Properties *)

Range(q) == {q[i] : i \in DOMAIN q}

RECURSIVE IsSubSeq(_, _)
IsSubSeq(a, b) ==
    IF a = <<>> THEN TRUE
    ELSE IF b = <<>> THEN FALSE
    ELSE IF Head(a) = Head(b) THEN IsSubSeq(Tail(a), Tail(b))
    ELSE IsSubSeq(a, Tail(b))

Increasing(q) == \A i \in 1..(Len(q) - 1) : q[i] < q[i + 1]

\* C1: detect_new_formations returns the empty list when previous is empty;
\* otherwise it returns exactly the records of current whose identity is the
\* identity of no record of previous, each occurrence once and in current's
\* order.
C1_DetectNewFormations ==
    "detect_new_formations" \in called =>
        IF previous = <<>>
        THEN new_formations = <<>>
        ELSE /\ Increasing(new_formations)
             /\ Range(new_formations) =
                    {i \in DOMAIN current :
                        \A j \in DOMAIN previous :
                            get_unique_id(current[i]) # get_unique_id(previous[j])}

\* two records of current share an identity no record of previous has, and
\* both are returned
C1_Witness ==
    /\ "detect_new_formations" \in called
    /\ previous # <<>>
    /\ Len(current) = 2
    /\ get_unique_id(current[1]) = get_unique_id(current[2])
    /\ new_formations = <<1, 2>>

IsPrefix(p, q) == Len(p) <= Len(q) /\ SubSeq(q, 1, Len(p)) = p

\* C2: for records that carry code_uai, the identity is the prefixed code:
\* two records with the same code have the same identity whatever their
\* other fields are, and the identity is never the composite key.
C2_IdentityFromCodeOnly ==
    "get_unique_id" \in called =>
        \A i, j \in DOMAIN current :
            /\ HasKey(current[i], "code_uai")
            /\ HasKey(current[j], "code_uai")
            /\ current[i].code_uai = current[j].code_uai
            => /\ uids[i] = uids[j]
               /\ IsPrefix(uai_, uids[i])
               /\ SubSeq(uids[i], Len(uai_) + 1, Len(uids[i])) = Format(current[i].code_uai)
               /\ ~IsPrefix(composite_, uids[i])

\* two records with one code and different names and cities got one identity
C2_Witness ==
    /\ "get_unique_id" \in called
    /\ Len(current) = 2
    /\ HasKey(current[1], "code_uai")
    /\ current[1].code_uai = current[2].code_uai
    /\ current[1].ville # current[2].ville
    /\ current[1].libelle_formation # current[2].libelle_formation
    /\ uids[1] = uids[2]

\* C3: every run that fetches at least one record ends with the stored
\* previous snapshot equal to exactly the records fetched in that run.
C3_PreviousIsLastFetch ==
    (run.outcome # "none" /\ run.fetched # <<>>) =>
        PREVIOUS_DATA_FILE = File(run.fetched)

\* C4: each stage that produces an output produces an order-preserving
\* subsequence of its input, which is the output of the stage before it, so
\* a record dropped by a stage is in the output of no later stage.
C4_StagesNarrow ==
    call.done =>
        /\ \A n \in DOMAIN call.stages :
              /\ call.stages[n].input =
                     IF n = 1 THEN Indices(formations) ELSE call.stages[n - 1].output
              /\ ~call.stages[n].raised =>
                     /\ IsSubSeq(call.stages[n].output, call.stages[n].input)
                     /\ Len(call.stages[n].output) <= Len(call.stages[n].input)
        /\ \A m, n \in DOMAIN call.stages :
              (m < n /\ ~call.stages[n].raised) =>
                  Range(call.stages[n].output) \subseteq Range(call.stages[m].output)
        /\ ~call.raised =>
              /\ IsSubSeq(call.filtered, Indices(formations))
              /\ call.stages # <<>> => call.filtered = call.stages[Len(call.stages)].output

\* include and exclude are both active; a record the include stage dropped
\* carries no excluded keyword, and it is not in the list returned
C4_Witness ==
    /\ call.done
    /\ ~call.raised
    /\ Len(call.stages) = 6
    /\ call.stages[4].active
    /\ call.stages[5].active
    /\ call.filtered # <<>>
    /\ \E i \in Range(call.stages[4].input) \ Range(call.stages[4].output) :
          /\ ~AnyIn(LowerAll(config.filters.keywords_exclude.l),
                    Lower(json_dumps(formations[i])))
          /\ i \notin Range(call.filtered)

\* the parameter of stage n is empty, null or missing
ParamEmpty(n, filters) ==
    LET Missing(v) == v.k \in {"absent", "null"}
        NoList(v) == v.k \in {"absent", "null"} \/ v.l = <<>>
    IN  CASE n = 1 -> NoList(filters.departements)
          [] n = 2 -> NoList(filters.types_formation)
          [] n = 3 -> NoList(filters.statut)
          [] n = 4 -> NoList(filters.keywords_include)
          [] n = 5 -> NoList(filters.keywords_exclude)
          [] n = 6 -> \/ Missing(filters.max_distance_km)
                      \/ Missing(filters.home_coordinates)
                      \/ Missing(filters.home_coordinates.lat)
                      \/ Missing(filters.home_coordinates.lon)

\* C5: a stage whose parameter is empty or null leaves the list unchanged,
\* and with every parameter empty apply_filters returns the records it was
\* given, unchanged and in the same order.
C5_InactiveStagePassThrough ==
    call.done =>
        /\ \A n \in DOMAIN call.stages :
              ParamEmpty(n, config.filters) =>
                  /\ ~call.stages[n].raised
                  /\ call.stages[n].output = call.stages[n].input
        /\ (\A n \in DOMAIN StageNames : ParamEmpty(n, config.filters)) =>
              /\ ~call.raised
              /\ call.filtered = Indices(formations)
              /\ call.heap = formations

\* max_distance_km and both components of home_coordinates are configured
\* and truthy
DistanceConfigured(filters) ==
    /\ Truthy(filters.max_distance_km)
    /\ filters.home_coordinates.k = "dict"
    /\ Truthy(filters.home_coordinates.lat)
    /\ Truthy(filters.home_coordinates.lon)

\* the numeric pair lat/lon or latitude/longitude of a coordinate mapping
HasPair(c) ==
    c.k = "dict" /\ \/ c.lat.k = "num" /\ c.lon.k = "num"
                    \/ c.latitude.k = "num" /\ c.longitude.k = "num"

PairOf(c) ==
    IF c.lat.k = "num" /\ c.lon.k = "num" THEN <<c.lat.n, c.lon.n>>
    ELSE <<c.latitude.n, c.longitude.n>>

\* the record has a numeric coordinate pair under coordonnees or coordinates
Resolvable(f) == HasPair(f.coordonnees) \/ HasPair(f.coordinates)

\* its distance from home, in metres
DistanceFromHome(f, filters) ==
    LET pair == IF HasPair(f.coordonnees) THEN PairOf(f.coordonnees)
                ELSE PairOf(f.coordinates)
    IN  calculate_distance(filters.home_coordinates.lat.n,
                           filters.home_coordinates.lon.n, pair[1], pair[2])

\* C6: when the distance stage is active, a record reaching it is kept if and
\* only if it has a resolvable numeric coordinate pair whose distance from
\* home is at most the maximum, and a kept record carries that distance
\* rounded to one decimal.
C6_DistanceKeepsExactlyWithinMax ==
    (call.done /\ ~call.raised /\ Len(call.stages) = 6
        /\ DistanceConfigured(config.filters)) =>
        \A i \in Range(call.stages[6].input) :
            LET within == /\ Resolvable(formations[i])
                          /\ DistanceFromHome(formations[i], config.filters)
                                 <= config.filters.max_distance_km.n * 1000
            IN  /\ i \in Range(call.filtered) <=> within
                /\ within => call.heap[i].distance_km =
                       Float1(Round1(DistanceFromHome(formations[i], config.filters)))

Annotated(f) == f.distance_km.k # "absent"

\* C7: a record carries the annotation after the call if and only if the
\* distance stage ran and kept it, having been kept by every stage before;
\* the annotation is the only change to such a record, every other record is
\* as it was passed, and the records kept are the records returned.
C7_AnnotationOnlyForSurvivors ==
    call.done =>
        /\ \A i \in DOMAIN formations :
              /\ Annotated(call.heap[i]) <=>
                     /\ Len(call.stages) = 6
                     /\ call.stages[6].active
                     /\ \A n \in 1..6 : i \in Range(call.stages[n].output)
              /\ [call.heap[i] EXCEPT !.distance_km = Absent] = formations[i]
        /\ (~call.raised /\ Len(call.stages) = 6) =>
              call.filtered = call.stages[6].output

\* the distance stage ran; it annotated a record it kept, and left alone a
\* record within range that an earlier stage had dropped
C7_Witness ==
    /\ call.done
    /\ ~call.raised
    /\ Len(call.stages) = 6
    /\ call.stages[6].active
    /\ \E i \in Range(call.filtered) : Annotated(call.heap[i])
    /\ \E i \in DOMAIN formations :
          /\ i \notin Range(call.stages[6].input)
          /\ Resolvable(formations[i])
          /\ DistanceFromHome(formations[i], config.filters)
                 <= config.filters.max_distance_km.n * 1000
          /\ call.heap[i] = formations[i]

\* the configured department set
Depts(filters) == {Str(filters.departements.l[i]) : i \in DOMAIN filters.departements.l}

\* the value of the first department field the record carries
FirstDept(f) ==
    IF HasKey(f, "departement") THEN f.departement ELSE Get(f, "code_departement")

\* C8 as claimed: the department stage keeps a record if and only if the
\* value of the first department field it carries (departement, then
\* code_departement) is in the configured set.
C8_FirstPresentFieldDecides ==
    (call.done /\ call.stages # <<>> /\ call.stages[1].active) =>
        \A i \in Range(call.stages[1].input) :
            i \in Range(call.stages[1].output) <=>
                FirstDept(formations[i]) \in Depts(config.filters)

\* C8 as amended: the department stage keeps a record if and only if the
\* value of its departement field or the value of its code_departement field
\* is in the configured set; it drops a record only when neither is.
C8_EitherFieldDecides ==
    (call.done /\ call.stages # <<>> /\ Truthy(config.filters.departements)) =>
        /\ call.stages[1].active
        /\ \A i \in Range(call.stages[1].input) :
              i \in Range(call.stages[1].output) <=>
                  \/ Get(formations[i], "departement") \in Depts(config.filters)
                  \/ Get(formations[i], "code_departement") \in Depts(config.filters)

\* the stage kept a record whose departement is outside the set and whose
\* code_departement is in it, and dropped a record with neither in the set
C8_Witness ==
    /\ call.done
    /\ call.stages # <<>>
    /\ call.stages[1].active
    /\ \E i \in Range(call.stages[1].output) :
          /\ HasKey(formations[i], "departement")
          /\ formations[i].departement \notin Depts(config.filters)
          /\ formations[i].code_departement \in Depts(config.filters)
    /\ Range(call.stages[1].output) # Range(call.stages[1].input)

C10_ApplyFiltersTotal == call.done => ~call.raised

\* the calls of main that write a data file, diff, filter or notify
AfterFetch ==
    {"save_current_formations", "detect_new_formations", "apply_filters",
     "create_email_html", "send_email_notification", "update_previous_formations"}

\* C11: a run whose fetch returns no record ends aborted, leaves both data
\* files as they were, calls none of save, diff, filter, notify or update,
\* sends no mail, and leaves on disk the previous snapshot it loaded, which
\* is therefore what the next run loads.
C11_EmptyFetchAborts ==
    [][run'.fetched = <<>> =>
          /\ run'.outcome = "aborted"
          /\ CURRENT_DATA_FILE' = CURRENT_DATA_FILE
          /\ PREVIOUS_DATA_FILE' = PREVIOUS_DATA_FILE
          /\ Range(run'.calls) \cap AfterFetch = {}
          /\ run'.new_formations = <<>>
          /\ run'.filtered_new = <<>>
          /\ run'.mail = NoMail
          /\ run'.previous_formations = load_previous_formations(PREVIOUS_DATA_FILE)
          /\ load_previous_formations(PREVIOUS_DATA_FILE') = run'.previous_formations
      ]_vars

\* a run aborted on an empty fetch with a previous snapshot on disk and a
\* current snapshot that differs from it
C11_Witness ==
    /\ run.outcome = "aborted"
    /\ run.fetched = <<>>
    /\ run.previous_formations # <<>>
    /\ PREVIOUS_DATA_FILE = File(run.previous_formations)
    /\ CURRENT_DATA_FILE.exists
    /\ CURRENT_DATA_FILE # PREVIOUS_DATA_FILE

\* the kind of notification a subject line is
SubjectKind(s) ==
    IF s = "First Run - Setup Complete" THEN "first run"
    ELSE IF s = "New Formation(s) Found" THEN "matches"
    ELSE IF s = "No New Formations" THEN "no new"
    ELSE "none"

\* the kind of notification a report body is
BodyKind(b) ==
    IF b.kind = "First Run" THEN "first run"
    ELSE IF b.kind = "New Formation(s) Found" THEN "matches"
    ELSE IF b.kind = "No New Formations" THEN "no new"
    ELSE "none"

\* the kind the priority rule gives a run
KindByPriority(r) ==
    IF r.is_first_run THEN "first run"
    ELSE IF r.filtered_new # <<>> THEN "matches"
    ELSE "no new"

\* C12: the subject and the body of every notification sent are both of the
\* kind the priority rule gives (first run, else matches when the filtered
\* new records are not empty, else no new matches); only a notification of
\* kind matches lists records, and it lists the filtered new records; a
\* first-run notification reports the number of records fetched.
C12_OneKindByPriority ==
    run.mail.sent =>
        /\ SubjectKind(run.mail.subject) = KindByPriority(run)
        /\ BodyKind(run.mail.body) = KindByPriority(run)
        /\ run.mail.body.listed =
               IF KindByPriority(run) = "matches" THEN run.filtered_new ELSE <<>>
        /\ KindByPriority(run) = "first run" =>
               run.mail.body.total = Len(run.fetched)

\* a first run that fetched records sent a first-run notification
C12_Witness ==
    /\ run.mail.sent
    /\ run.is_first_run
    /\ run.fetched # <<>>
    /\ SubjectKind(run.mail.subject) = "first run"
    /\ BodyKind(run.mail.body) = "first run"

=============================================================================
